---- MODULE Spec2Model ----
(***************************************************************************)
(* A model of legendary_replace_tool.py: the command-line run (__main__),  *)
(* the recursive clone copy_directory_with_replace and the recursive       *)
(* content rewrite recursive_replace, over a small file system.            *)
(*                                                                         *)
(* A string is a sequence of one-character strings; a path string holds    *)
(* "/" separators exactly as the code builds it with os.path.join and      *)
(* rewrites it with str.replace. The file system maps a resolved path (a   *)
(* sequence of name segments below the working directory) to a node.       *)
(* Bytes that do not decode as text are the character "#"; "CR" and "LF"   *)
(* are the carriage return and the line feed.                              *)
(***************************************************************************)
EXTENDS Integers, Sequences, FiniteSets, TLC

VARIABLES
    fs,                      \* the file system: resolved path -> node
    tagfile,                 \* what the --tags resource holds
    args,                    \* the parsed command line
    tags_template,           \* global: the loaded dict, as <<key, value>> pairs in insertion order
    tags_sorted_by_longest,  \* global: the ordered key list
    pc,                      \* the position of __main__
    stack,                   \* the frames of the running recursive function
    stdout,                  \* the lines printed so far
    err,                     \* the uncaught exception that ended the run
    fs0,                     \* history: the file system when the run started
    fs1,                     \* history: the file system when recursive_replace was called
    calls,                   \* history: the calls of copy_directory_with_replace
    nMkdir,                  \* history: directories created by the clone step
    nCopy,                   \* history: files copied by the clone step
    run,                     \* history: 1 the first run, 2 the run made on its output
    tree0                    \* history: the template (source tree) of the first run

vars == <<fs, tagfile, args, tags_template, tags_sorted_by_longest, pc, stack,
          stdout, err, fs0, fs1, calls, nMkdir, nCopy, run, tree0>>

-----------------------------------------------------------------------------
(* Bounds of the model.                                                     *)

\* The interpreter's limit on nested calls of copy_directory_with_replace.
RecursionLimit == 5

\* The longest tag dictionary drawn for the key ordering.
MaxTags == 3

-----------------------------------------------------------------------------
(* Strings.                                                                 *)

SEP == "/"

Reverse(s) == [i \in 1..Len(s) |-> s[Len(s) + 1 - i]]

\* t occurs in s at position i
MatchAt(s, t, i) ==
    /\ i + Len(t) - 1 <= Len(s)
    /\ \A j \in 1..Len(t) : s[i + j - 1] = t[j]

\* Python: t in s
Contains(s, t) == \E i \in 1..(Len(s) + 1) : MatchAt(s, t, i)

RECURSIVE Intersperse(_, _, _)
Intersperse(s, new, i) ==
    IF i > Len(s) THEN new
    ELSE new \o <<s[i]>> \o Intersperse(s, new, i + 1)

RECURSIVE ReplaceFrom(_, _, _, _)
ReplaceFrom(s, old, new, i) ==
    IF i > Len(s) THEN <<>>
    ELSE IF MatchAt(s, old, i)
         THEN new \o ReplaceFrom(s, old, new, i + Len(old))
         ELSE <<s[i]>> \o ReplaceFrom(s, old, new, i + 1)

\* Python: s.replace(old, new): every non-overlapping occurrence, left to right;
\* an empty old matches before every character and at the end.
Replace(s, old, new) ==
    IF old = <<>> THEN Intersperse(s, new, 1) ELSE ReplaceFrom(s, old, new, 1)

\* tags_template[key]
Value(tags, key) ==
    LET i == CHOOSE j \in 1..Len(tags) : tags[j][1] = key IN tags[i][2]

-----------------------------------------------------------------------------
(* The key ordering (__main__, lines 160-165).                              *)

\* x goes after every element whose sort key is not greater: a stable insertion
InsertAsc(t, x) ==
    LET after == {i \in 1..Len(t) : t[i].n > x.n}
        pos   == IF after = {} THEN Len(t) + 1
                 ELSE CHOOSE i \in after : \A j \in after : i <= j
    IN  SubSeq(t, 1, pos - 1) \o <<x>> \o SubSeq(t, pos, Len(t))

RECURSIVE StableAsc(_)
\* list.sort(): stable, ascending in the sort key
StableAsc(s) ==
    IF s = <<>> THEN <<>>
    ELSE InsertAsc(StableAsc(SubSeq(s, 1, Len(s) - 1)), s[Len(s)])

\* A descending sort that sorts ascending and reverses the result: equal keys
\* come out in reverse insertion order.
SortedAscThenReversed(items) == Reverse(StableAsc(items))

\* sorted(..., reverse=True): the list is reversed, sorted stably ascending and
\* reversed again, so equal keys keep their order.
SortedReverse(items) == Reverse(StableAsc(Reverse(items)))

\* for k in tags_template: the keys in insertion order
Keys(tags) == [i \in 1..Len(tags) |-> tags[i][1]]

\* sorted(tags_template, key=lambda k: len(k), reverse=True) if not args.REVERSE
\* else sorted(tags_template, key=lambda k: len(tags_template[k]), reverse=True)
SortTags(tags, REVERSE) ==
    LET items == [i \in 1..Len(tags) |->
                    [key |-> tags[i][1],
                     n   |-> IF ~REVERSE THEN Len(tags[i][1]) ELSE Len(tags[i][2])]]
        sorted == SortedReverse(items)
    IN  [i \in 1..Len(sorted) |-> sorted[i].key]

-----------------------------------------------------------------------------
(* The substitution passes.                                                 *)

RECURSIVE SubstFrom(_, _, _, _)
SubstFrom(s, keys, tags, i) ==
    IF i > Len(keys) THEN s
    ELSE SubstFrom(Replace(s, keys[i], Value(tags, keys[i])), keys, tags, i + 1)

\* lines 92-94: for key in tags_sorted_by_longest: dest = dest.replace(key, tags_template[key])
SubstPath(dest_raw, keys, tags) == SubstFrom(dest_raw, keys, tags, 1)

INVALID == "#"
CR == "CR"
LF == "LF"

\* f.read() of a file opened "rt" fails on a byte that is no text
Decodable(data) == \A i \in 1..Len(data) : data[i] # INVALID

RECURSIVE DecodeFrom(_, _)
DecodeFrom(data, i) ==
    IF i > Len(data) THEN <<>>
    ELSE IF data[i] = CR
         THEN <<LF>> \o DecodeFrom(data, IF i < Len(data) /\ data[i + 1] = LF
                                         THEN i + 2 ELSE i + 1)
         ELSE <<data[i]>> \o DecodeFrom(data, i + 1)

\* open(filepath, "rt").read(): universal newlines, CR LF and CR become LF
Decode(data) == DecodeFrom(data, 1)

\* open(filepath, "wt").write(data): LF is written as os.linesep, LF on POSIX
Encode(text) == [i \in 1..Len(text) |-> text[i]]

RECURSIVE RewriteFrom(_, _, _, _, _)
RewriteFrom(data, keys, tags, reverse, i) ==
    IF i > Len(keys) THEN [data |-> data, notices |-> 0]
    ELSE IF ~Decodable(data)
         THEN LET r == RewriteFrom(data, keys, tags, reverse, i + 1)
              IN  [data |-> r.data, notices |-> r.notices + 1]
         ELSE LET text == Decode(data)
                  new  == IF reverse
                          THEN Replace(text, Value(tags, keys[i]), keys[i])
                          ELSE Replace(text, keys[i], Value(tags, keys[i]))
              IN  RewriteFrom(Encode(new), keys, tags, reverse, i + 1)

\* lines 132-145: the loop over the keys on one file: each pass opens, reads,
\* replaces and writes the file, or prints the notice when the read fails
RewriteFile(data, keys, tags, reverse) == RewriteFrom(data, keys, tags, reverse, 1)

-----------------------------------------------------------------------------
(* Paths and the file system.                                               *)

\* os.path.join(a, b)
Join(a, b) ==
    IF b # <<>> /\ b[1] = SEP THEN b
    ELSE IF a = <<>> \/ a[Len(a)] = SEP THEN a \o b
    ELSE a \o <<SEP>> \o b

RECURSIVE ResolveFrom(_, _, _, _)
ResolveFrom(s, i, cur, acc) ==
    LET acc2 == IF cur = <<>> THEN acc ELSE Append(acc, cur) IN
    IF i > Len(s) THEN acc2
    ELSE IF s[i] = SEP THEN ResolveFrom(s, i + 1, <<>>, acc2)
    ELSE ResolveFrom(s, i + 1, Append(cur, s[i]), acc)

\* The path a path string names: its segments, empty ones dropped (the working
\* directory is the root).
Resolve(s) == ResolveFrom(s, 1, <<>>, <<>>)

IsPrefix(p, q) == Len(p) <= Len(q) /\ SubSeq(q, 1, Len(p)) = p

Parent(p) == SubSeq(p, 1, Len(p) - 1)

DirNode == [kind |-> "dir", data |-> <<>>, mode |-> 0]

FileNode(data, mode) == [kind |-> "file", data |-> data, mode |-> mode]

\* os.path.exists(s)
Exists(f, s) == s # <<>> /\ Resolve(s) \in DOMAIN f

\* os.path.isdir(s)
IsDir(f, s) == Exists(f, s) /\ f[Resolve(s)].kind = "dir"

\* os.listdir(s), as the set of names: the order is the file system's
ListDir(f, s) ==
    LET p == Resolve(s) IN
    {q[Len(q)] : q \in {r \in DOMAIN f : Len(r) = Len(p) + 1 /\ IsPrefix(p, r)}}

\* os.makedirs(s): creates the leaf and every missing directory above it
MakeDirs(f, s) ==
    LET p       == Resolve(s)
        above   == {SubSeq(p, 1, n) : n \in 1..Len(p)}
        missing == {q \in above : q \notin DOMAIN f}
        fail(e) == [ok |-> FALSE, err |-> e, fs |-> f, made |-> 0]
    IN  IF s = <<>> THEN fail("FileNotFoundError")
        ELSE IF p \in DOMAIN f THEN fail("FileExistsError")
        ELSE IF \E q \in above : q \in DOMAIN f /\ f[q].kind = "file"
             THEN fail("NotADirectoryError")
        ELSE [ok |-> TRUE, err |-> "",
              fs |-> [q \in DOMAIN f \cup missing |->
                        IF q \in DOMAIN f THEN f[q] ELSE DirNode],
              made |-> Cardinality(missing)]

\* shutil.copyfile(src, dest) then os.chmod(dest, os.stat(src).st_mode)
CopyFile(f, src, dest) ==
    LET sp == Resolve(src)
        dp == Resolve(dest)
        fail(e) == [ok |-> FALSE, err |-> e, fs |-> f]
    IN  IF Exists(f, src) /\ Exists(f, dest) /\ sp = dp THEN fail("SameFileError")
        ELSE IF ~Exists(f, src) THEN fail("FileNotFoundError")
        ELSE IF dest = <<>> \/ dp = <<>> THEN fail("FileNotFoundError")
        ELSE IF dp \in DOMAIN f /\ f[dp].kind = "dir" THEN fail("IsADirectoryError")
        ELSE IF Parent(dp) \notin DOMAIN f THEN fail("FileNotFoundError")
        ELSE IF f[Parent(dp)].kind = "file" THEN fail("NotADirectoryError")
        ELSE [ok |-> TRUE, err |-> "",
              fs |-> [q \in DOMAIN f \cup {dp} |->
                        IF q = dp THEN FileNode(f[sp].data, f[sp].mode) ELSE f[q]]]

-----------------------------------------------------------------------------
(* The inputs: templates, tag dictionaries and command lines.               *)

FsOf(entries) ==
    [p \in {e[1] : e \in entries} \cup {<<>>} |->
        IF p = <<>> THEN DirNode ELSE (CHOOSE e \in entries : e[1] = p)[2]]

nS   == <<"S">>
nO   == <<"O">>
nG   == <<"G">>
nR   == <<"R">>
nA   == <<"a">>
nAB  == <<"a", "b">>
nABC == <<"a", "b", "c">>
nABB == <<"a", "b", "b">>
nD   == <<"d">>
nF   == <<"f">>
nT   == <<"t">>
nBIN == <<"b", "i", "n">>
nX   == <<"X">>
nY   == <<"Y">>

DS_STORE   == <<".", "D", "S", "_", "S", "t", "o", "r", "e">>
IDEA       == <<".", "i", "d", "e", "a">>
PYCACHE    == <<"_", "_", "p", "y", "c", "a", "c", "h", "e", "_", "_">>

\* S/abc, an executable whose body names both tags
TreePrecedence ==
    FsOf({ <<<<nS>>, DirNode>>,
           <<<<nS, nABC>>, FileNode(<<"a", "b", " ", "a", "b", "c">>, 493)>> })

\* S/abb/d/f: a tagged directory two levels above a file
TreeNested ==
    FsOf({ <<<<nS>>, DirNode>>,
           <<<<nS, nABB>>, DirNode>>,
           <<<<nS, nABB, nD>>, DirNode>>,
           <<<<nS, nABB, nD, nF>>, FileNode(<<"a", "b">>, 420)>> })

\* S/bin (no text), S/.idea/f (an IDE directory), S/t (text with CR LF)
TreeMixed ==
    FsOf({ <<<<nS>>, DirNode>>,
           <<<<nS, nBIN>>, FileNode(<<INVALID, "a", "b">>, 493)>>,
           <<<<nS, IDEA>>, DirNode>>,
           <<<<nS, IDEA, nF>>, FileNode(<<"a", "b">>, 420)>>,
           <<<<nS, nT>>, FileNode(<<"a", "b", CR, LF, "a", "b">>, 420)>> })

\* S/ab and S/a: two names one substitution sends to the same name
TreeCollide ==
    FsOf({ <<<<nS>>, DirNode>>,
           <<<<nS, nAB>>, FileNode(<<"1">>, 420)>>,
           <<<<nS, nA>>, FileNode(<<"2">>, 420)>> })

Templates == {TreePrecedence, TreeNested, TreeMixed, TreeCollide}

\* {"ab": "X", "abc": "Y"}
TagsPrecedence == << <<nAB, nX>>, <<nABC, nY>> >>

\* {"ab": "a"}
TagsShrink == << <<nAB, nA>> >>

\* the --tags resource: absent, no JSON, or a JSON object of strings
TagFile(status, tags) == [status |-> status, tags |-> tags]

TagFiles ==
    {TagFile("missing", <<>>), TagFile("malformed", <<>>)}
        \cup {TagFile("ok", t) : t \in {TagsPrecedence, TagsShrink}}

\* --out: a fresh directory, the source, the source with a trailing separator,
\* a directory inside the source, a fresh directory whose name holds a tag
Outs == { nO, nS, nS \o <<SEP>>, nS \o <<SEP>> \o nG, nO \o nAB }

\* the relative tree below root: names, kinds and contents
TreeAt(f, root) ==
    [rel \in {SubSeq(q, Len(root) + 1, Len(q)) :
                q \in {r \in DOMAIN f : IsPrefix(root, r) /\ r # root}} |->
        [kind |-> f[root \o rel].kind, data |-> f[root \o rel].data]]

\* the same with the permission bits
NodesAt(f, root) ==
    [rel \in {SubSeq(q, Len(root) + 1, Len(q)) :
                q \in {r \in DOMAIN f : IsPrefix(root, r) /\ r # root}} |->
        f[root \o rel]]

-----------------------------------------------------------------------------
(* The run.                                                                 *)

Init ==
    /\ fs \in Templates
    /\ tagfile \in TagFiles
    /\ \E o \in Outs, rev \in BOOLEAN :
          args = [source |-> nS, out |-> o, REVERSE |-> rev]
    /\ tags_template = <<>>
    /\ tags_sorted_by_longest = <<>>
    /\ pc = "start"
    /\ stack = <<>>
    /\ stdout = <<>>
    /\ err = ""
    /\ fs0 = fs
    /\ fs1 = fs
    /\ calls = {}
    /\ nMkdir = 0
    /\ nCopy = 0
    /\ run = 1
    /\ tree0 = TreeAt(fs, <<nS>>)

\* lines 151-152: if not os.path.exists(args.out): os.makedirs(args.out)
MakeOut ==
    /\ pc = "start"
    /\ LET r == IF Exists(fs, args.out)
                THEN [ok |-> TRUE, err |-> "", fs |-> fs, made |-> 0]
                ELSE MakeDirs(fs, args.out)
       IN  /\ fs' = r.fs
           /\ err' = r.err
           /\ pc' = IF r.ok THEN "load" ELSE "crashed"
    /\ UNCHANGED <<tagfile, args, tags_template, tags_sorted_by_longest, stack,
                   stdout, fs0, fs1, calls, nMkdir, nCopy, run, tree0>>

\* lines 154-155: open(args.tags) and json.loads
LoadTags ==
    /\ pc = "load"
    /\ IF tagfile.status = "missing"
       THEN pc' = "crashed" /\ err' = "FileNotFoundError" /\ UNCHANGED tags_template
       ELSE IF tagfile.status = "malformed"
       THEN pc' = "crashed" /\ err' = "JSONDecodeError" /\ UNCHANGED tags_template
       ELSE pc' = "sort" /\ tags_template' = tagfile.tags /\ UNCHANGED err
    /\ UNCHANGED <<fs, tagfile, args, tags_sorted_by_longest, stack, stdout, fs0, fs1,
                   calls, nMkdir, nCopy, run, tree0>>

\* lines 160-165
SortKeys ==
    /\ pc = "sort"
    /\ tags_sorted_by_longest' = SortTags(tags_template, args.REVERSE)
    /\ pc' = "copy"
    /\ UNCHANGED <<fs, tagfile, args, tags_template, stack, stdout, err, fs0, fs1,
                   calls, nMkdir, nCopy, run, tree0>>

\* lines 90-115: one call of copy_directory_with_replace(src, dest_raw), up to
\* its loop over the directory's entries
copy_directory_with_replace(f, stk, src, dest_raw) ==
    LET dest == SubstPath(dest_raw, tags_sorted_by_longest, tags_template)
        out(f2, stk2, e, made, copied, kind) ==
            [fs |-> f2, stack |-> stk2, err |-> e, made |-> made, copied |-> copied,
             call |-> [src |-> src, dest_raw |-> dest_raw, dest |-> dest, kind |-> kind]]
    IN  IF Len(stk) >= RecursionLimit
        THEN out(f, stk, "RecursionError", 0, 0, "error")
        ELSE IF IsDir(f, src)
        THEN LET r == IF IsDir(f, dest)
                      THEN [ok |-> TRUE, err |-> "", fs |-> f, made |-> 0]
                      ELSE MakeDirs(f, dest)
             IN  IF ~r.ok THEN out(f, stk, r.err, 0, 0, "error")
                 ELSE out(r.fs,
                          Append(stk, [src |-> src, dest |-> dest,
                                       files |-> ListDir(r.fs, src)]),
                          "", r.made, 0, "dir")
        ELSE LET c == CopyFile(f, src, dest)
             IN  IF c.ok THEN out(c.fs, stk, "", 0, 1, "file")
                 ELSE IF c.err = "SameFileError" THEN out(f, stk, "", 0, 0, "same")
                 ELSE out(f, stk, c.err, 0, 0, "error")

Cloned(r) ==
    /\ fs' = r.fs
    /\ stack' = r.stack
    /\ err' = r.err
    /\ nMkdir' = nMkdir + r.made
    /\ nCopy' = nCopy + r.copied
    /\ calls' = calls \cup {r.call}
    /\ pc' = IF r.err # "" THEN "crashed"
             ELSE IF r.stack = <<>> THEN "replace" ELSE "cloning"

\* lines 167-168: if args.source != args.out: copy_directory_with_replace(...)
StartClone ==
    /\ pc = "copy"
    /\ IF args.source # args.out
       THEN Cloned(copy_directory_with_replace(fs, stack, args.source, args.out))
       ELSE pc' = "replace" /\ UNCHANGED <<fs, stack, err, nMkdir, nCopy, calls>>
    /\ UNCHANGED <<tagfile, args, tags_template, tags_sorted_by_longest, stdout,
                   fs0, fs1, run, tree0>>

\* lines 104-107: the next entry of the directory being copied
CloneStep ==
    /\ pc = "cloning"
    /\ stack # <<>>
    /\ LET top == stack[Len(stack)] IN
       \E f \in top.files :
          Cloned(copy_directory_with_replace(
                    fs,
                    [stack EXCEPT ![Len(stack)].files = top.files \ {f}],
                    Join(top.src, f), Join(top.dest, f)))
    /\ UNCHANGED <<tagfile, args, tags_template, tags_sorted_by_longest, stdout,
                   fs0, fs1, run, tree0>>

\* the loop of line 104 is over: the call returns
CloneReturn ==
    /\ pc = "cloning"
    /\ stack # <<>>
    /\ stack[Len(stack)].files = {}
    /\ stack' = SubSeq(stack, 1, Len(stack) - 1)
    /\ pc' = IF Len(stack) = 1 THEN "replace" ELSE "cloning"
    /\ UNCHANGED <<fs, tagfile, args, tags_template, tags_sorted_by_longest,
                   stdout, err, fs0, fs1, calls, nMkdir, nCopy, run, tree0>>

\* ".DS_Store" in filename or ".idea" in filename or "__pycache__" in filename
Ignored(filename) ==
    \/ Contains(filename, DS_STORE)
    \/ Contains(filename, IDEA)
    \/ Contains(filename, PYCACHE)

\* lines 119-120: recursive_replace(basepath) lists the directory
EnterReplace(f, stk, basepath) ==
    IF IsDir(f, basepath)
    THEN [stack |-> Append(stk, [basepath |-> basepath, files |-> ListDir(f, basepath)]),
          err |-> ""]
    ELSE [stack |-> stk,
          err |-> IF Exists(f, basepath) THEN "NotADirectoryError"
                  ELSE "FileNotFoundError"]

\* line 170: recursive_replace(args.out, args.REVERSE)
StartRewrite ==
    /\ pc = "replace"
    /\ LET r == EnterReplace(fs, <<>>, args.out) IN
          /\ stack' = r.stack
          /\ err' = r.err
          /\ pc' = IF r.err # "" THEN "crashed" ELSE "rewriting"
    /\ fs1' = fs
    /\ UNCHANGED <<fs, tagfile, args, tags_template, tags_sorted_by_longest,
                   stdout, fs0, calls, nMkdir, nCopy, run, tree0>>

Copies(n, x) == [i \in 1..n |-> x]

\* lines 121-145: the loop body of recursive_replace on one entry
recursive_replace(filename) ==
    LET top      == stack[Len(stack)]
        rest     == [stack EXCEPT ![Len(stack)].files = top.files \ {filename}]
        filepath == Join(top.basepath, filename)
    IN  IF Ignored(filename)
        THEN stack' = rest /\ UNCHANGED <<fs, stdout>>
        ELSE IF IsDir(fs, filepath)
        THEN stack' = EnterReplace(fs, rest, filepath).stack /\ UNCHANGED <<fs, stdout>>
        ELSE LET p == Resolve(filepath)
                 r == RewriteFile(fs[p].data, tags_sorted_by_longest, tags_template,
                                  args.REVERSE)
             IN  /\ fs' = [fs EXCEPT ![p].data = r.data]
                 /\ stdout' = stdout \o Copies(r.notices, filepath)
                 /\ stack' = rest

RewriteStep ==
    /\ pc = "rewriting"
    /\ stack # <<>>
    /\ \E filename \in stack[Len(stack)].files : recursive_replace(filename)
    /\ UNCHANGED <<tagfile, args, tags_template, tags_sorted_by_longest, pc, err,
                   fs0, fs1, calls, nMkdir, nCopy, run, tree0>>

\* the loop of line 120 is over: the call returns
RewriteReturn ==
    /\ pc = "rewriting"
    /\ stack # <<>>
    /\ stack[Len(stack)].files = {}
    /\ stack' = SubSeq(stack, 1, Len(stack) - 1)
    /\ pc' = IF Len(stack) = 1 THEN "done" ELSE "rewriting"
    /\ UNCHANGED <<fs, tagfile, args, tags_template, tags_sorted_by_longest,
                   stdout, err, fs0, fs1, calls, nMkdir, nCopy, run, tree0>>

\* where a finished forward run has put its output: the clone substitutes the
\* tags in the whole destination path, --out included
OutputRoot ==
    IF args.source # args.out
    THEN SubstPath(args.out, tags_sorted_by_longest, tags_template)
    ELSE args.out

\* The tool is run again with --REVERSE on the output of a finished forward
\* run, with the same tag dictionary, in place or into a fresh directory.
ReverseRun ==
    /\ pc = "done"
    /\ run = 1
    /\ ~args.REVERSE
    /\ \E o \in {OutputRoot, nR} :
          args' = [source |-> OutputRoot, out |-> o, REVERSE |-> TRUE]
    /\ tags_template' = <<>>
    /\ tags_sorted_by_longest' = <<>>
    /\ pc' = "start"
    /\ stdout' = <<>>
    /\ fs0' = fs
    /\ fs1' = fs
    /\ calls' = {}
    /\ nMkdir' = 0
    /\ nCopy' = 0
    /\ run' = 2
    /\ UNCHANGED <<fs, tagfile, stack, err, tree0>>

Next ==
    \/ MakeOut
    \/ LoadTags
    \/ SortKeys
    \/ StartClone
    \/ CloneStep
    \/ CloneReturn
    \/ StartRewrite
    \/ RewriteStep
    \/ RewriteReturn
    \/ ReverseRun

Spec == Init /\ [][Next]_vars

-----------------------------------------------------------------------------
(* The key ordering alone, over every small tag dictionary.                 *)

KeyPool == {nA, nX, nAB, nABC}

ValuePool == {nX, nY, nAB}

\* every dict of at most MaxTags entries, in every insertion order
TagDicts ==
    UNION { {t \in [1..n -> KeyPool \X ValuePool] :
                \A i, j \in 1..n : t[i][1] = t[j][1] => i = j} : n \in 0..MaxTags }

\* __main__ has created --out and loaded the dictionary (line 155 is done)
InitSort ==
    /\ fs = MakeDirs(TreePrecedence, nO).fs
    /\ \E t \in TagDicts : tagfile = TagFile("ok", t)
    /\ \E rev \in BOOLEAN : args = [source |-> nS, out |-> nO, REVERSE |-> rev]
    /\ tags_template = tagfile.tags
    /\ tags_sorted_by_longest = <<>>
    /\ pc = "sort"
    /\ stack = <<>>
    /\ stdout = <<>>
    /\ err = ""
    /\ fs0 = TreePrecedence
    /\ fs1 = TreePrecedence
    /\ calls = {}
    /\ nMkdir = 0
    /\ nCopy = 0
    /\ run = 1
    /\ tree0 = TreeAt(TreePrecedence, <<nS>>)

SortSpec == InitSort /\ [][SortKeys]_vars

-----------------------------------------------------------------------------
(* The properties.                                                          *)

DistinctValues(tags) ==
    \A i, j \in 1..Len(tags) : tags[i][2] = tags[j][2] => i = j

\* the last name of a path string
LastName(s) == LET p == Resolve(s) IN IF p = <<>> THEN <<>> ELSE p[Len(p)]

\* A is a substring of B and B is longer
Shadows(A, B) == Len(B) > Len(A) /\ Contains(B, A)

\* the length the ordering compares for key k
SortLen(k) == IF args.REVERSE THEN Len(Value(tags_template, k)) ELSE Len(k)

\* the place of key k in the dictionary's insertion order
InsertionIndex(k) == CHOOSE i \in 1..Len(tags_template) : tags_template[i][1] = k

\* the regular files below root, as paths relative to it
FilesBelow(f, root) ==
    {rel \in DOMAIN NodesAt(f, root) : f[root \o rel].kind = "file"}

\* the printed notices that name the file at path p
Notices(p) == Cardinality({i \in 1..Len(stdout) : Resolve(stdout[i]) = p})

\* C1: with pairwise distinct values, a forward run followed by a --REVERSE run
\* on its output gives back the template: the same names, kinds and contents.
C1_RoundTrip ==
    (run = 2 /\ pc = "done" /\ DistinctValues(tags_template))
        => TreeAt(fs, Resolve(args.out)) = tree0

\* C2: when key A is a substring of a longer key B, every substitution pass
\* turns B into TagMap[B]: the path-name pass of every clone call made so far,
\* in forward and in --REVERSE runs, and the content pass of a forward run.
C2_Precedence ==
    \A i, j \in 1..Len(tags_template) :
        LET A == tags_template[i][1]
            B == tags_template[j][1]
        IN  Shadows(A, B) =>
              /\ \A c \in calls :
                    LastName(c.dest_raw) = B => LastName(c.dest) = Value(tags_template, B)
              /\ (pc \in {"rewriting", "done"} /\ ~args.REVERSE) =>
                    RewriteFile(B, tags_sorted_by_longest, tags_template, FALSE).data
                        = Value(tags_template, B)

\* C3: when the clone has completed, every regular file of the source at
\* s1/.../sn is a file of the destination at the path whose segments are the
\* si with the ordered substitutions applied once, with the source's bytes and
\* permission bits.
C3_ClonePlacement ==
    (pc = "replace" /\ args.source # args.out) =>
        \A rel \in FilesBelow(fs0, Resolve(args.source)) :
            LET s == Resolve(args.source) \o rel
                d == Resolve(args.out) \o
                       [i \in 1..Len(rel) |->
                          SubstPath(rel[i], tags_sorted_by_longest, tags_template)]
            IN  /\ d \in DOMAIN fs
                /\ fs[d].kind = "file"
                /\ fs[d].data = fs0[s].data
                /\ fs[d].mode = fs0[s].mode

\* C4: when a run has aborted on a missing or malformed tag-map resource, the
\* file system is what it was when the run started: nothing was created or
\* written before the abort.
C4_NoMutationBeforeAbort ==
    (pc = "crashed" /\ tagfile.status \in {"missing", "malformed"}) => fs = fs0

\* C5: when --source differs from --out, the tree below the source root is at
\* every step what it was when the run started.
C5_SourceReadOnly ==
    args.source # args.out =>
        NodesAt(fs, Resolve(args.source)) = NodesAt(fs0, Resolve(args.source))

\* C6: when source and destination resolve to the same path, the clone step
\* creates no directory, copies no file and leaves every name as it was, at
\* every step up to and through the content rewrite.
C6_SamePathNoClone ==
    Resolve(args.source) = Resolve(args.out) =>
        /\ nMkdir = 0
        /\ nCopy = 0
        /\ DOMAIN fs = DOMAIN fs0

\* C7: when the rewrite is done, every file below the rewritten root that does
\* not decode as text has the bytes it had and exactly one printed notice.
C7_BinarySkip ==
    pc = "done" =>
        \A rel \in FilesBelow(fs1, Resolve(args.out)) :
            LET p == Resolve(args.out) \o rel IN
            ~Decodable(fs1[p].data) =>
                /\ fs[p].data = fs1[p].data
                /\ Notices(p) = 1

\* C8: after the ordering, tags_sorted_by_longest holds every key exactly once,
\* is non-increasing in the compared length (the key's in forward mode, the
\* value's in reverse mode), and keys of equal length are in insertion order.
C8_KeyOrdering ==
    pc = "copy" =>
        LET s == tags_sorted_by_longest IN
        /\ Len(s) = Len(tags_template)
        /\ \A i \in 1..Len(tags_template) :
              Cardinality({j \in 1..Len(s) : s[j] = tags_template[i][1]}) = 1
        /\ \A i, j \in 1..Len(s) : i < j => SortLen(s[i]) >= SortLen(s[j])
        /\ \A i, j \in 1..Len(s) :
              (i < j /\ SortLen(s[i]) = SortLen(s[j]))
                 => InsertionIndex(s[i]) < InsertionIndex(s[j])

\* C8 witness: a reverse-mode ordering that moved a key and kept a tie
C8_Witness ==
    /\ pc = "copy"
    /\ args.REVERSE
    /\ tags_sorted_by_longest # Keys(tags_template)
    /\ \E i, j \in 1..Len(tags_sorted_by_longest) :
          /\ i < j
          /\ SortLen(tags_sorted_by_longest[i]) = SortLen(tags_sorted_by_longest[j])
          /\ Len(tags_sorted_by_longest[i]) < Len(tags_sorted_by_longest[j])

\* C9: when a run with source different from out is done, every text file the
\* clone created holds the ordered substitution of the content it was given.
C9_CloneRewriteCoverage ==
    (pc = "done" /\ args.source # args.out) =>
        \A c \in calls :
            (c.kind = "file" /\ Decodable(fs1[Resolve(c.dest)].data)) =>
                fs[Resolve(c.dest)].data =
                    RewriteFile(fs1[Resolve(c.dest)].data, tags_sorted_by_longest,
                                tags_template, args.REVERSE).data

\* C10: the clone step and the rewrite finish: the recursion of the clone never
\* runs until the interpreter's call stack is exhausted.
C10_Termination == err # "RecursionError"

====
